---- MODULE Spec2Model ----
(***************************************************************************)
(* Model of c3/libraries/envelopes.py: the registry of envelope functions  *)
(* (the dict `envelopes`, filled by the decorator env_reg_deco) and the    *)
(* envelope functions f(t, params).                                        *)
(*                                                                         *)
(* Numbers are exact rationals [n, d].  A sample of a result vector is one *)
(* of: a rational constant, NaN, exp(r) for a rational r, or the value of  *)
(* a named closed-form formula at given arguments (the formulas built from *)
(* erf, sin, cos and sqrt(pi) are kept as terms: equal terms are equal     *)
(* reals).  Exceptions are outcomes: status is "ok" or the exception name. *)
(***************************************************************************)
EXTENDS Integers, Sequences, FiniteSets

VARIABLES
    envelopes,  \* the registry dict: name -> function object
    loaded,     \* number of decorated definitions of the module already executed
    regLog,     \* history: every function handed to env_reg_deco, in order
    nUserRegs,  \* history: registrations made after the module was loaded
    found,      \* outcome of the last lookup envelopes[name]
    name,       \* shape name of the last evaluation ("" before the first)
    tvec,       \* time vector of the last evaluation
    pre,        \* the caller's parameter mapping before the last evaluation
    params,     \* the caller's parameter mapping (a dict the callee may mutate)
    ret         \* outcome of the last evaluation

vars == <<envelopes, loaded, regLog, nUserRegs, found, name, tvec, pre, params, ret>>

regVars == <<envelopes, loaded, regLog, nUserRegs, found>>
callVars == <<name, tvec, pre, params, ret>>

-----------------------------------------------------------------------------
(* Bounds *)

\* longest time vector
MaxLen == 3
\* most keys in a parameter mapping the caller builds
MaxKeys == 3
\* most registrations after the module is loaded
MaxUserRegs == 2
\* ramps, samples and edges of flattop_variant range over 0 .. MaxTime (and halves)
MaxTime == 3

-----------------------------------------------------------------------------
(* Exact rational arithmetic *)

RECURSIVE GCD(_, _)
GCD(a, b) == IF b = 0 THEN a ELSE GCD(b, a % b)

Abs(x) == IF x < 0 THEN -x ELSE x

\* the rational n/d (d # 0) in lowest terms with a positive denominator
Rat(nn, dd) ==
    LET g == GCD(Abs(nn), Abs(dd))
        s == IF dd < 0 THEN -1 ELSE 1
    IN  [n |-> (s * nn) \div g, d |-> (s * dd) \div g]

R(k) == [n |-> k, d |-> 1]

RAdd(a, b) == Rat(a.n * b.d + b.n * a.d, a.d * b.d)
RSub(a, b) == Rat(a.n * b.d - b.n * a.d, a.d * b.d)
RMul(a, b) == Rat(a.n * b.n, a.d * b.d)
RNeg(a) == [n |-> -a.n, d |-> a.d]
\* a / k for an integer k # 0
RDivInt(a, k) == Rat(a.n, a.d * k)
\* a / b for b # 0
RDiv(a, b) == Rat(a.n * b.d, a.d * b.n)
RLe(a, b) == a.n * b.d <= b.n * a.d
RLt(a, b) == a.n * b.d < b.n * a.d
RSq(a) == RMul(a, a)

-----------------------------------------------------------------------------
(* Sample values *)

Const(r) == [fn |-> "const", e |-> r, args |-> <<>>]
Zero == Const(R(0))
One == Const(R(1))
NaN == [fn |-> "nan", e |-> R(0), args |-> <<>>]
\* the value of formula f at time e with the scalar arguments args
Term(f, e, args) == [fn |-> f, e |-> e, args |-> args]

\* exp(-num / den) for num >= 0, den >= 0 in IEEE arithmetic:
\* -0/0 is NaN, -x/0 is -inf and exp(-inf) = 0, exp(-0) = 1.
ExpNeg(num, den) ==
    IF den.n = 0
    THEN IF num.n = 0 THEN NaN ELSE Zero
    ELSE IF num.n = 0 THEN One
         ELSE [fn |-> "exp", e |-> RNeg(RDiv(num, den)), args |-> <<>>]

-----------------------------------------------------------------------------
(* Parameter values: Quantity objects and plain floats *)

\* c3.c3objs.Quantity(value, min, max, unit) holding a scalar
Qty(value, min, max, unit) ==
    [ty |-> "Qty", dim |-> 0, value |-> <<value>>, min |-> min, max |-> max,
     unit |-> unit]

\* a quantity of the pool, in seconds
Q(v) == Qty(v, R(0), R(10), "s")

\* a Quantity holding a vector (amps, freqs)
QtyVec(values) ==
    [ty |-> "Qty", dim |-> 1, value |-> values, min |-> R(0), max |-> R(0),
     unit |-> ""]

\* a plain Python float
Float(value) ==
    [ty |-> "float", dim |-> 0, value |-> <<value>>, min |-> R(0), max |-> R(0),
     unit |-> ""]

\* Quantity.get_value() of a scalar quantity
get_value(q) == q.value[1]

\* the literal 1e-9 of flattop
RisefallLiteral == Rat(1, 1000000000)

-----------------------------------------------------------------------------
(* Outcomes of a call: status, the returned value, the mapping afterwards *)

Err(e, p) == [status |-> e, kind |-> "none", val |-> <<>>, params |-> p]
Vec(v, p) == [status |-> "ok", kind |-> "vector", val |-> v, params |-> p]
Scalar(x, p) == [status |-> "ok", kind |-> "scalar", val |-> <<x>>, params |-> p]
\* pwc returns the mapping object itself
Alias(p) == [status |-> "ok", kind |-> "params", val |-> <<>>, params |-> p]

\* params[k].get_value(): KeyError when k is absent, AttributeError when the
\* entry is not a Quantity
Access(p, k) ==
    IF k \notin DOMAIN p THEN "KeyError"
    ELSE IF p[k].ty # "Qty" THEN "AttributeError"
    ELSE "ok"

\* the first failure of params[k].get_value() over the keys ks, in order
RECURSIVE FirstFailure(_, _)
FirstFailure(p, ks) ==
    IF ks = <<>> THEN "ok"
    ELSE IF Access(p, Head(ks)) # "ok" THEN Access(p, Head(ks))
    ELSE FirstFailure(p, Tail(ks))

\* params[k] read as is: KeyError when k is absent
RECURSIVE FirstMissing(_, _)
FirstMissing(p, ks) ==
    IF ks = <<>> THEN "ok"
    ELSE IF Head(ks) \notin DOMAIN p THEN "KeyError"
    ELSE FirstMissing(p, Tail(ks))

\* params[k] = v on a dict
SetItem(p, k, v) == [x \in DOMAIN p \cup {k} |-> IF x = k THEN v ELSE p[x]]

\* the formula f evaluated elementwise over t with the scalar arguments args
Elementwise(f, t, args) == [i \in 1..Len(t) |-> Term(f, t[i], args)]

-----------------------------------------------------------------------------
(* The envelope functions: each maps (t, params) to an outcome *)

no_drive(t, p) == Vec([i \in 1..Len(t) |-> Zero], p)

pwc(t, p) == Alias(p)

\* amps [n,1] * f(freqs [m,1] * t [1,N]) summed over axis 0.  The shapes
\* broadcast when n = m or one of them is 1; the sum has no term when the
\* component axis is empty.
fourier(f, t, p) ==
    LET err == FirstFailure(p, <<"amps", "freqs">>)
        a == p["amps"].value
        w == p["freqs"].value
        n == Len(a)
        m == Len(w)
        k == IF n = 1 THEN m ELSE n
        pairs == [j \in 1..(2 * k) |->
                    IF j % 2 = 1
                    THEN a[IF n = 1 THEN 1 ELSE (j + 1) \div 2]
                    ELSE w[IF m = 1 THEN 1 ELSE j \div 2]]
    IN  IF err # "ok" THEN Err(err, p)
        ELSE IF ~(n = m \/ n = 1 \/ m = 1) THEN Err("InvalidArgumentError", p)
        ELSE IF k = 0 THEN Vec([i \in 1..Len(t) |-> Zero], p)
        ELSE Vec(Elementwise(f, t, pairs), p)

fourier_sin(t, p) == fourier("fourier_sin", t, p)

fourier_cos(t, p) == fourier("fourier_cos", t, p)

rect(t, p) == Scalar(One, p)

flattop_risefall(t, p) ==
    LET err == FirstFailure(p, <<"t_up", "t_down", "risefall">>)
    IN  IF err # "ok" THEN Err(err, p)
        ELSE Vec(Elementwise("flattop_risefall", t,
                   <<get_value(p["t_up"]), get_value(p["t_down"]),
                     get_value(p["risefall"])>>), p)

\* params['risefall'] = 1e-9 stores a plain float, then delegates
flattop(t, p) == flattop_risefall(t, SetItem(p, "risefall", Float(RisefallLiteral)))

\* faulty variant: a missing sigma falls back to a default width instead of failing
gaussian_family_default_sigma(f, t, p) ==
    LET q == IF "sigma" \in DOMAIN p THEN p ELSE SetItem(p, "sigma", Q(R(1)))
        err == FirstFailure(q, <<"t_final", "sigma">>)
    IN  IF err # "ok" THEN Err(err, p)
        ELSE Vec(Elementwise(f, t,
                   <<get_value(q["t_final"]), get_value(q["sigma"])>>), p)

\* the shapes that read t_final and sigma through get_value and evaluate a
\* closed form of (t, t_final, sigma)
gaussian_family(f, t, p) ==
    LET err == FirstFailure(p, <<"t_final", "sigma">>)
    IN  IF err # "ok" THEN Err(err, p)
        ELSE Vec(Elementwise(f, t,
                   <<get_value(p["t_final"]), get_value(p["sigma"])>>), p)

gaussian_sigma(t, p) == gaussian_family("gaussian_sigma", t, p)

\* the Quantity gaussian and drag derive from t_final
derived_sigma(p) ==
    Qty(RDivInt(get_value(p["t_final"]), 4),
        RDivInt(get_value(p["t_final"]), 8),
        RDivInt(get_value(p["t_final"]), 2),
        p["t_final"].unit)

\* faulty variant: params.setdefault('sigma', ...), a sigma of the caller is kept
gaussian_setdefault(t, p) ==
    IF Access(p, "t_final") # "ok" THEN Err(Access(p, "t_final"), p)
    ELSE IF "sigma" \in DOMAIN p THEN gaussian_sigma(t, p)
    ELSE gaussian_sigma(t, SetItem(p, "sigma", derived_sigma(p)))

gaussian(t, p) ==
    IF Access(p, "t_final") # "ok" THEN Err(Access(p, "t_final"), p)
    ELSE gaussian_sigma(t, SetItem(p, "sigma", derived_sigma(p)))

\* exp(-(t - t_final/2)^2 / (2 sigma^2)), computed exactly
gaussian_nonorm(t, p) ==
    LET err == FirstFailure(p, <<"t_final", "sigma">>)
        t_final == get_value(p["t_final"])
        sigma == get_value(p["sigma"])
    IN  IF err # "ok" THEN Err(err, p)
        ELSE Vec([i \in 1..Len(t) |->
                    ExpNeg(RSq(RSub(t[i], RDivInt(t_final, 2))),
                           RMul(R(2), RSq(sigma)))], p)

gaussian_der_nonorm(t, p) == gaussian_family("gaussian_der_nonorm", t, p)

\* norm is computed with tf.sqrt(8): tf.sqrt of an integer tensor is rejected,
\* after both parameters have been read
gaussian_der(t, p) ==
    LET err == FirstFailure(p, <<"t_final", "sigma">>)
    IN  IF err # "ok" THEN Err(err, p)
        ELSE Err("InvalidArgumentError", p)

drag_sigma(t, p) == gaussian_family("drag_sigma", t, p)

\* faulty variant: the derived quantity is stored under 't_final' instead of 'sigma'
drag_wrong_key(t, p) ==
    IF Access(p, "t_final") # "ok" THEN Err(Access(p, "t_final"), p)
    ELSE drag_sigma(t, SetItem(p, "t_final", derived_sigma(p)))

drag(t, p) ==
    IF Access(p, "t_final") # "ok" THEN Err(Access(p, "t_final"), p)
    ELSE drag_sigma(t, SetItem(p, "sigma", derived_sigma(p)))

drag_der(t, p) == gaussian_family("drag_der", t, p)

\* faulty variant: the ramp is not clamped
clamped_ramp_none(t_up, t_down, ramp) == ramp

\* ramp after `if ramp > (t_down-t_up)/2: ramp = (t_down-t_up)/2`
clamped_ramp(t_up, t_down, ramp) ==
    IF RLt(RDivInt(RSub(t_down, t_up), 2), ramp)
    THEN RDivInt(RSub(t_down, t_up), 2)
    ELSE ramp

\* faulty variant: the rise branch excludes its left end (t_up < e)
variant_sample_strict(e, t_up, t_down, ramp) ==
    LET two_sigma2 == RMul(R(2), RMul(Rat(2, 25), RSq(ramp)))
    IN  IF RLt(t_up, e) /\ RLe(e, RAdd(t_up, ramp))
        THEN ExpNeg(RSq(RSub(RSub(e, t_up), ramp)), two_sigma2)
        ELSE IF RLt(RAdd(t_up, ramp), e) /\ RLt(e, RSub(t_down, ramp))
        THEN One
        ELSE IF RLe(e, t_down) /\ RLe(RSub(t_down, ramp), e)
        THEN ExpNeg(RSq(RAdd(RSub(e, t_down), ramp)), two_sigma2)
        ELSE Zero

\* one pass of the loop body of flattop_variant for the sample e;
\* sigma = sqrt(2)*ramp*0.2 enters only as 2*sigma**2 = 2 * (2 * ramp^2 / 25)
variant_sample(e, t_up, t_down, ramp) ==
    LET two_sigma2 == RMul(R(2), RMul(Rat(2, 25), RSq(ramp)))
    IN  IF RLe(t_up, e) /\ RLe(e, RAdd(t_up, ramp))
        THEN ExpNeg(RSq(RSub(RSub(e, t_up), ramp)), two_sigma2)
        ELSE IF RLt(RAdd(t_up, ramp), e) /\ RLt(e, RSub(t_down, ramp))
        THEN One
        ELSE IF RLe(e, t_down) /\ RLe(RSub(t_down, ramp), e)
        THEN ExpNeg(RSq(RAdd(RSub(e, t_down), ramp)), two_sigma2)
        ELSE Zero

\* t_up, t_down and ramp are read as they are and used in float arithmetic,
\* which a Quantity object does not support
flattop_variant(t, p) ==
    LET err == FirstMissing(p, <<"t_up", "t_down", "ramp">>)
        t_up == p["t_up"].value[1]
        t_down == p["t_down"].value[1]
        ramp == clamped_ramp(t_up, t_down, p["ramp"].value[1])
    IN  IF err # "ok" THEN Err(err, p)
        ELSE IF \E k \in {"t_up", "t_down", "ramp"} : p[k].ty # "float"
        THEN Err("TypeError", p)
        ELSE Vec([i \in 1..Len(t) |-> variant_sample(t[i], t_up, t_down, ramp)], p)

\* calling the function object func
Apply(func, t, p) ==
    CASE func.impl = "no_drive" -> no_drive(t, p)
      [] func.impl = "pwc" -> pwc(t, p)
      [] func.impl = "fourier_sin" -> fourier_sin(t, p)
      [] func.impl = "fourier_cos" -> fourier_cos(t, p)
      [] func.impl = "rect" -> rect(t, p)
      [] func.impl = "flattop_risefall" -> flattop_risefall(t, p)
      [] func.impl = "flattop" -> flattop(t, p)
      [] func.impl = "gaussian_sigma" -> gaussian_sigma(t, p)
      [] func.impl = "gaussian" -> gaussian(t, p)
      [] func.impl = "gaussian_nonorm" -> gaussian_nonorm(t, p)
      [] func.impl = "gaussian_der_nonorm" -> gaussian_der_nonorm(t, p)
      [] func.impl = "gaussian_der" -> gaussian_der(t, p)
      [] func.impl = "drag_sigma" -> drag_sigma(t, p)
      [] func.impl = "drag" -> drag(t, p)
      [] func.impl = "drag_der" -> drag_der(t, p)
      [] func.impl = "flattop_variant" -> flattop_variant(t, p)

-----------------------------------------------------------------------------
(* The registry *)

\* faulty variant: the last definition of the module lacks the decorator
ModuleDefs_undecorated ==
    <<"no_drive", "pwc", "fourier_sin", "fourier_cos", "rect",
      "flattop_risefall", "flattop", "gaussian_sigma", "gaussian",
      "gaussian_nonorm", "gaussian_der_nonorm", "gaussian_der", "drag_sigma",
      "drag", "drag_der">>

\* the decorated definitions of the module, in the order they are executed
ModuleDefs ==
    <<"no_drive", "pwc", "fourier_sin", "fourier_cos", "rect",
      "flattop_risefall", "flattop", "gaussian_sigma", "gaussian",
      "gaussian_nonorm", "gaussian_der_nonorm", "gaussian_der", "drag_sigma",
      "drag", "drag_der", "flattop_variant">>

\* the function object a `def nm` of the module creates: its __name__ and its code
ModuleFunc(nm) == [name |-> nm, impl |-> nm]

\* function objects other code may hand to the decorator: a __name__ and some code
UserFuncs ==
    {[name |-> nm, impl |-> c] : nm \in {"rect", "gaussian", "my_shape"},
                                 c \in {"user_a", "user_b"}}

\* names a caller may look up
LookupNames == {"rect", "gaussian", "flattop_variant", "my_shape", "not_a_shape"}

EmptyDict == [x \in {} |-> Zero]

\* faulty variant: envelopes.setdefault(name, func), the first registration wins
env_reg_deco_setdefault(reg, func) ==
    IF func.name \in DOMAIN reg THEN reg ELSE SetItem(reg, func.name, func)

\* env_reg_deco(func): envelopes[str(func.__name__)] = func
env_reg_deco(reg, func) == SetItem(reg, func.name, func)

\* the registry after the first k definitions of the module have been executed
RECURSIVE LoadFirst(_)
LoadFirst(k) ==
    IF k = 0 THEN EmptyDict
    ELSE env_reg_deco(LoadFirst(k - 1), ModuleFunc(ModuleDefs[k]))

NoFunc == [name |-> "", impl |-> ""]

\* faulty variant: envelopes.get(nm), a missing name yields a default instead of an error
lookup_get(reg, nm) ==
    IF nm \in DOMAIN reg
    THEN [status |-> "ok", fn |-> reg[nm], reg |-> reg]
    ELSE [status |-> "ok", fn |-> NoFunc, reg |-> reg]

\* envelopes[nm] on the registry dict: the entry, or KeyError; reg is the
\* registry afterwards
lookup(reg, nm) ==
    IF nm \in DOMAIN reg
    THEN [status |-> "ok", fn |-> reg[nm], reg |-> reg]
    ELSE [status |-> "KeyError", fn |-> NoFunc, reg |-> reg]

NoLookup == [key |-> "", status |-> "none", fn |-> NoFunc, afterFailure |-> FALSE]

-----------------------------------------------------------------------------
(* Inputs *)

Keys == {"t_final", "sigma", "t_up", "t_down", "risefall", "ramp", "amps", "freqs"}

\* the values a caller may store under a key: a Quantity and a plain float
KeyPool(k) ==
    CASE k = "t_final" -> {Q(R(2)), Q(R(4)), Float(R(2))}
      [] k = "sigma" -> {Q(R(1)), Float(R(1))}
      [] k = "t_up" -> {Q(R(0)), Float(R(0))}
      [] k = "t_down" -> {Q(R(2)), Float(R(2))}
      [] k = "risefall" -> {Q(R(1)), Float(R(1))}
      [] k = "ramp" -> {Q(R(1)), Float(R(1))}
      [] k = "amps" -> {QtyVec(<<R(1), R(2)>>), Float(R(1))}
      [] k = "freqs" -> {QtyVec(<<R(1)>>), QtyVec(<<R(0), R(1)>>)}

NoRet == [status |-> "none", kind |-> "none", val |-> <<>>]

-----------------------------------------------------------------------------
(* Actions *)

\* the module executes its next decorated definition
LoadNext ==
    /\ loaded < Len(ModuleDefs)
    /\ envelopes' = env_reg_deco(envelopes, ModuleFunc(ModuleDefs[loaded + 1]))
    /\ regLog' = Append(regLog, ModuleFunc(ModuleDefs[loaded + 1]))
    /\ loaded' = loaded + 1
    /\ UNCHANGED <<nUserRegs, found, callVars>>

\* other code applies the decorator after the module is loaded
RegisterUser ==
    /\ loaded = Len(ModuleDefs)
    /\ nUserRegs < MaxUserRegs
    /\ \E f \in UserFuncs :
        /\ envelopes' = env_reg_deco(envelopes, f)
        /\ regLog' = Append(regLog, f)
    /\ nUserRegs' = nUserRegs + 1
    /\ UNCHANGED <<loaded, found, callVars>>

\* a caller subscripts the registry
Lookup ==
    /\ \E nm \in LookupNames :
        LET r == lookup(envelopes, nm)
        IN  /\ envelopes' = r.reg
            /\ found' = [key |-> nm, status |-> r.status, fn |-> r.fn,
                         afterFailure |-> (found.status = "KeyError")]
    /\ UNCHANGED <<loaded, regLog, nUserRegs, callVars>>

\* the caller starts a fresh parameter mapping and time vector
NewCall ==
    /\ params' = EmptyDict
    /\ tvec' = <<>>
    /\ name' = ""
    /\ pre' = EmptyDict
    /\ ret' = NoRet
    /\ UNCHANGED regVars

\* the caller stores a value under a new key of its mapping
SetKey ==
    /\ name = ""
    /\ Cardinality(DOMAIN params) < MaxKeys
    /\ \E k \in Keys \ DOMAIN params : \E v \in KeyPool(k) :
        params' = SetItem(params, k, v)
    /\ name' = ""
    /\ pre' = EmptyDict
    /\ ret' = NoRet
    /\ UNCHANGED <<tvec, regVars>>

\* the caller extends its time vector by the next instant of a uniform grid
AppendSample ==
    /\ name = ""
    /\ Len(tvec) < MaxLen
    /\ tvec' = Append(tvec, R(Len(tvec)))
    /\ name' = ""
    /\ pre' = EmptyDict
    /\ ret' = NoRet
    /\ UNCHANGED <<params, regVars>>

\* envelopes[nm](t, params): the callee runs to its return or its exception
Eval(nm) ==
    LET o == Apply(envelopes[nm], tvec, params)
    IN  /\ name' = nm
        /\ pre' = params
        /\ params' = o.params
        /\ ret' = [status |-> o.status, kind |-> o.kind, val |-> o.val]
        /\ UNCHANGED <<tvec, regVars>>

Call == name = "" /\ \E nm \in DOMAIN envelopes : Eval(nm)

\* the caller takes the result and goes on with the same mapping and time vector
Continue ==
    /\ name # ""
    /\ name' = ""
    /\ pre' = EmptyDict
    /\ ret' = NoRet
    /\ UNCHANGED <<params, tvec, regVars>>

-----------------------------------------------------------------------------
(* Specifications *)

\* the registry, from the empty dict of line 11 through the module's loading
InitRegistry ==
    /\ envelopes = EmptyDict
    /\ loaded = 0
    /\ regLog = <<>>
    /\ nUserRegs = 0
    /\ found = NoLookup
    /\ name = ""
    /\ tvec = <<>>
    /\ pre = EmptyDict
    /\ params = EmptyDict
    /\ ret = NoRet

NextRegistry == LoadNext \/ RegisterUser \/ Lookup

SpecRegistry == InitRegistry /\ [][NextRegistry]_vars

\* evaluation of the registered shapes, from the loaded module
Init ==
    /\ envelopes = LoadFirst(Len(ModuleDefs))
    /\ loaded = Len(ModuleDefs)
    /\ regLog = [i \in 1..Len(ModuleDefs) |-> ModuleFunc(ModuleDefs[i])]
    /\ nUserRegs = 0
    /\ found = NoLookup
    /\ name = ""
    /\ tvec = <<>>
    /\ pre = EmptyDict
    /\ params = EmptyDict
    /\ ret = NoRet

Next == NewCall \/ SetKey \/ AppendSample \/ Call \/ Continue

Spec == Init /\ [][Next]_vars

\* flattop_variant alone, over a grid of edges, ramps and samples
EdgePool == {R(k) : k \in 0..MaxTime}
RampPool == {Rat(k, 2) : k \in 0..(2 * MaxTime)}
SamplePool == {Rat(k, 2) : k \in (-1)..(2 * MaxTime + 1)}

VariantParams ==
    {[k \in {"t_up", "t_down", "ramp"} |->
        Float(CASE k = "t_up" -> u [] k = "t_down" -> d [] k = "ramp" -> r)] :
     u \in EdgePool, d \in EdgePool, r \in RampPool}

VariantVectors == UNION {[1..n -> SamplePool] : n \in 0..2}

InitVariant ==
    /\ envelopes = LoadFirst(Len(ModuleDefs))
    /\ loaded = Len(ModuleDefs)
    /\ regLog = [i \in 1..Len(ModuleDefs) |-> ModuleFunc(ModuleDefs[i])]
    /\ nUserRegs = 0
    /\ found = NoLookup
    /\ name = ""
    /\ tvec \in VariantVectors
    /\ pre = EmptyDict
    /\ params \in VariantParams
    /\ ret = NoRet

CallVariant == name = "" /\ Eval("flattop_variant")

NextVariant == CallVariant

SpecVariant == InitVariant /\ [][NextVariant]_vars

-----------------------------------------------------------------------------
(* Properties of the registry (SpecRegistry) *)

\* C1: once the module is loaded (and nothing else has been registered) the
\* registry's keys are exactly the sixteen shape names, and each key k holds
\* the module's function named k.
C1_RegistryAfterLoad ==
    (loaded = Len(ModuleDefs) /\ nUserRegs = 0) =>
        /\ DOMAIN envelopes =
             {"no_drive", "pwc", "fourier_sin", "fourier_cos", "rect",
              "flattop_risefall", "flattop", "gaussian_sigma", "gaussian",
              "gaussian_nonorm", "gaussian_der_nonorm", "gaussian_der",
              "drag_sigma", "drag", "drag_der", "flattop_variant"}
        /\ \A k \in DOMAIN envelopes : envelopes[k] = [name |-> k, impl |-> k]

\* the module is loaded and its last definition has been looked up
C1_Witness ==
    /\ loaded = Len(ModuleDefs)
    /\ nUserRegs = 0
    /\ found.key = "flattop_variant"
    /\ found.status = "ok"

\* C2: after any sequence of registrations the registry has exactly the names
\* that were registered, one entry each, and the entry of a name is the
\* function of the latest registration under that name (so a registration
\* changes no other name's entry).
C2_LastRegistrationWins ==
    /\ DOMAIN envelopes = {regLog[i].name : i \in DOMAIN regLog}
    /\ \A nm \in DOMAIN envelopes :
         \E i \in DOMAIN regLog :
            /\ regLog[i].name = nm
            /\ \A j \in DOMAIN regLog : j > i => regLog[j].name # nm
            /\ envelopes[nm] = regLog[i]

\* a name was registered twice with different functions while another name
\* registered after the load is present too
C2_Witness ==
    /\ \E i, j \in DOMAIN regLog :
         /\ i < j
         /\ regLog[i].name = regLog[j].name
         /\ regLog[i] # regLog[j]
         /\ envelopes[regLog[j].name] = regLog[j]
    /\ "my_shape" \in DOMAIN envelopes

\* C3: a lookup never changes the registry; it fails with KeyError exactly
\* when the name is not registered and otherwise returns the registered
\* function, also when the lookup before it failed.
C3_LookupOutcome ==
    [][regLog' = regLog =>
          /\ envelopes' = envelopes
          /\ found'.key \in DOMAIN envelopes =>
                (found'.status = "ok" /\ found'.fn = envelopes[found'.key])
          /\ found'.key \notin DOMAIN envelopes =>
                (found'.status = "KeyError" /\ found'.fn = NoFunc)]_vars

\* a registered name is found by the lookup that follows a failed lookup
C3_Witness ==
    /\ found.status = "ok"
    /\ found.afterFailure
    /\ found.key \in DOMAIN envelopes
    /\ found.fn = envelopes[found.key]

-----------------------------------------------------------------------------
(* Properties of the evaluations (Spec) *)

\* the keys a shape requires, from the parameter contracts
Required(nm) ==
    CASE nm \in {"no_drive", "pwc", "rect"} -> {}
      [] nm \in {"fourier_sin", "fourier_cos"} -> {"amps", "freqs"}
      [] nm = "flattop_risefall" -> {"t_up", "t_down", "risefall"}
      [] nm = "flattop" -> {"t_up", "t_down"}
      [] nm = "flattop_variant" -> {"t_up", "t_down", "ramp"}
      [] nm \in {"gaussian", "drag"} -> {"t_final"}
      [] nm \in {"gaussian_sigma", "gaussian_nonorm", "gaussian_der_nonorm",
                 "gaussian_der", "drag_sigma", "drag_der"} -> {"t_final", "sigma"}

\* the required keys that are present hold what the shape's contract names:
\* plain floats for flattop_variant, quantities for the others
WellTyped(nm, p) ==
    \A k \in Required(nm) \cap DOMAIN p :
        p[k].ty = (IF nm = "flattop_variant" THEN "float" ELSE "Qty")

\* C4: gaussian and drag return what gaussian_sigma and drag_sigma return for
\* sigma = t_final/4, whatever sigma the caller's mapping held.
C4_FixedRatio ==
    (name \in {"gaussian", "drag"} /\ "t_final" \in DOMAIN pre) =>
        LET sigma == Q(RDivInt(pre["t_final"].value[1], 4))
            direct == IF name = "gaussian"
                      THEN gaussian_sigma(tvec, SetItem(pre, "sigma", sigma))
                      ELSE drag_sigma(tvec, SetItem(pre, "sigma", sigma))
        IN  /\ ret.status = direct.status
            /\ ret.kind = direct.kind
            /\ ret.val = direct.val

\* gaussian returned a vector although the caller's sigma was another value
C4_Witness ==
    /\ name = "gaussian"
    /\ ret.status = "ok"
    /\ Len(tvec) >= 2
    /\ "sigma" \in DOMAIN pre
    /\ pre["sigma"].ty = "Qty"
    /\ pre["sigma"].value[1] # RDivInt(pre["t_final"].value[1], 4)

\* C5: with quantities t_up and t_down, flattop completes and returns what
\* flattop_risefall returns for the same t_up, t_down and a risefall of 1e-9.
C5_FlattopDelegates ==
    (name = "flattop" /\ Access(pre, "t_up") = "ok" /\ Access(pre, "t_down") = "ok") =>
        LET direct == flattop_risefall(tvec,
                          SetItem(pre, "risefall", Q(RisefallLiteral)))
        IN  /\ ret.status = "ok"
            /\ ret.kind = direct.kind
            /\ ret.val = direct.val

\* C6: only flattop, gaussian and drag change the caller's mapping, and only
\* at 'risefall', 'sigma' and 'sigma': flattop leaves the float 1e-9 there,
\* gaussian and drag leave the quantity derived from t_final whenever t_final
\* can be read; every other key and value is as before the call.
C6_Frame ==
    name # "" =>
        /\ name \notin {"flattop", "gaussian", "drag"} => params = pre
        /\ name = "flattop" =>
              params = SetItem(pre, "risefall", Float(RisefallLiteral))
        /\ name \in {"gaussian", "drag"} =>
              IF Access(pre, "t_final") = "ok"
              THEN params = SetItem(pre, "sigma",
                       Qty(RDivInt(pre["t_final"].value[1], 4),
                           RDivInt(pre["t_final"].value[1], 8),
                           RDivInt(pre["t_final"].value[1], 2),
                           pre["t_final"].unit))
              ELSE params = pre

\* drag replaced the caller's sigma in a mapping that holds other keys too
C6_Witness ==
    /\ name = "drag"
    /\ Cardinality(DOMAIN pre) >= 3
    /\ "sigma" \in DOMAIN pre
    /\ params["sigma"] # pre["sigma"]
    /\ \A k \in DOMAIN pre \ {"sigma"} : params[k] = pre[k]

\* C8: every shape but pwc, given its required keys, returns a sequence of
\* len(t) elements: zeros for no_drive, 1.0 at every index for rect.
C8_LengthMatches ==
    (name \notin {"", "pwc"} /\ Required(name) \subseteq DOMAIN pre
     /\ WellTyped(name, pre)) =>
        /\ ret.status = "ok"
        /\ ret.kind = "vector"
        /\ Len(ret.val) = Len(tvec)
        /\ name = "no_drive" => \A i \in 1..Len(tvec) : ret.val[i] = Zero
        /\ name = "rect" => \A i \in 1..Len(tvec) : ret.val[i] = One

\* C9 as stated: when a required key is absent the call fails with KeyError,
\* returns nothing, and leaves the caller's mapping as it was, for every shape.
C9_MissingKeyLeavesMapping ==
    (name # "" /\ ~(Required(name) \subseteq DOMAIN pre) /\ WellTyped(name, pre)) =>
        /\ ret.status = "KeyError"
        /\ ret.kind = "none"
        /\ ret.val = <<>>
        /\ params = pre

\* C9 amended: when a required key is absent (the required keys that are
\* present holding what the shape expects) the call fails with KeyError and
\* returns nothing; the caller's mapping is as it was, except that flattop
\* has already stored the float 1e-9 under 'risefall'.
C9_MissingKey ==
    (name # "" /\ ~(Required(name) \subseteq DOMAIN pre) /\ WellTyped(name, pre)) =>
        /\ ret.status = "KeyError"
        /\ ret.kind = "none"
        /\ ret.val = <<>>
        /\ name # "flattop" => params = pre
        /\ name = "flattop" =>
              params = SetItem(pre, "risefall", Float(RisefallLiteral))

\* flattop failed on a missing t_down and left 'risefall' in the mapping
C9_Witness ==
    /\ name = "flattop"
    /\ "t_up" \in DOMAIN pre
    /\ "t_down" \notin DOMAIN pre
    /\ "risefall" \notin DOMAIN pre
    /\ ret.status = "KeyError"
    /\ "risefall" \in DOMAIN params

-----------------------------------------------------------------------------
(* Properties of flattop_variant (SpecVariant) *)

VariantCalled == name = "flattop_variant"
v_up == pre["t_up"].value[1]
v_down == pre["t_down"].value[1]
v_ramp == pre["ramp"].value[1]
\* min(ramp, (t_down - t_up)/2)
v_r == IF RLe(v_ramp, RDivInt(RSub(v_down, v_up), 2))
       THEN v_ramp ELSE RDivInt(RSub(v_down, v_up), 2)
\* the Gaussian flank exp(-(e - c)^2 / (2 sigma^2)) with sigma^2 = 2 r^2 / 25,
\* for r > 0: 1 at its peak c
Flank(e, c, r) ==
    IF e = c THEN One
    ELSE [fn |-> "exp",
          e |-> RNeg(RDiv(RMul(R(25), RSq(RSub(e, c))), RMul(R(4), RSq(r)))),
          args |-> <<>>]

\* C7: with ramp = 0 and t_up < t_down a sample strictly between t_up and
\* t_down is exactly 1, a sample outside [t_up, t_down] is exactly 0, and a
\* sample equal to t_up or t_down takes the rise/fall branch, whose value
\* there is exp(-0/0) = NaN, neither the flat 1 nor the 0.
C7_ZeroRamp ==
    (VariantCalled /\ v_ramp = R(0) /\ RLt(v_up, v_down)) =>
        /\ ret.status = "ok"
        /\ Len(ret.val) = Len(tvec)
        /\ \A i \in 1..Len(tvec) :
            /\ (RLt(v_up, tvec[i]) /\ RLt(tvec[i], v_down)) => ret.val[i] = One
            /\ (RLt(tvec[i], v_up) \/ RLt(v_down, tvec[i])) => ret.val[i] = Zero
            /\ (tvec[i] = v_up \/ tvec[i] = v_down) => ret.val[i] = NaN

\* a zero-ramp evaluation over an edge sample and an inner sample
C7_Witness ==
    /\ VariantCalled
    /\ v_ramp = R(0)
    /\ RLt(v_up, v_down)
    /\ \E i, j \in 1..Len(tvec) :
         /\ tvec[i] = v_up
         /\ RLt(v_up, tvec[j]) /\ RLt(tvec[j], v_down)
         /\ ret.val[j] = One

\* C10: with t_up <= t_down and ramp >= 0 the effective ramp is
\* r = min(ramp, (t_down - t_up)/2) and a sample is rise if
\* t_up <= e <= t_up + r, else flat (1) if t_up + r < e < t_down - r, else
\* fall if t_down - r <= e <= t_down, else 0; so samples outside
\* [t_up, t_down] are 0 and, for r > 0, the samples at t_up + r and
\* t_down - r are 1.
C10_Regions ==
    (VariantCalled /\ RLe(v_up, v_down) /\ RLe(R(0), v_ramp)) =>
        /\ ret.status = "ok"
        /\ Len(ret.val) = Len(tvec)
        /\ \A i \in 1..Len(tvec) :
            LET e == tvec[i]
                rise == RLe(v_up, e) /\ RLe(e, RAdd(v_up, v_r))
                flat == ~rise /\ RLt(RAdd(v_up, v_r), e) /\ RLt(e, RSub(v_down, v_r))
                fall == ~rise /\ ~flat /\ RLe(RSub(v_down, v_r), e) /\ RLe(e, v_down)
            IN  /\ rise => ret.val[i] =
                      (IF v_r = R(0) THEN NaN ELSE Flank(e, RAdd(v_up, v_r), v_r))
                /\ flat => ret.val[i] = One
                /\ fall => ret.val[i] =
                      (IF v_r = R(0) THEN NaN ELSE Flank(e, RSub(v_down, v_r), v_r))
                /\ ~(rise \/ flat \/ fall) => ret.val[i] = Zero
                /\ (RLt(e, v_up) \/ RLt(v_down, e)) => ret.val[i] = Zero
                /\ (v_r # R(0) /\ (e = RAdd(v_up, v_r) \/ e = RSub(v_down, v_r)))
                      => ret.val[i] = One

\* the clamp is active and the sample at the midpoint, where the two peaks
\* coincide, is 1, next to a sample on the flank
C10_Witness ==
    /\ VariantCalled
    /\ RLt(v_up, v_down)
    /\ RLt(RDivInt(RSub(v_down, v_up), 2), v_ramp)
    /\ \E i, j \in 1..Len(tvec) :
         /\ tvec[i] = RAdd(v_up, v_r)
         /\ tvec[i] = RSub(v_down, v_r)
         /\ ret.val[i] = One
         /\ ret.val[j].fn = "exp"

====
